---- MODULE Spec2Model ----
(***************************************************************************)
(* Lease-based sequential id generator (src/src/main.rs,                   *)
(* src/src/time_provider.rs).                                              *)
(*                                                                         *)
(* AppState holds the lease timeout, the BTreeMap `expires` (id -> expiry  *)
(* in ms), the VecDeque `availables` and a time provider.  The two         *)
(* handlers get_next and get_heartbeat each take the one mutex over the    *)
(* whole AppState and run get_next_impl / get_heartbeat_impl under it, so  *)
(* each handler is one atomic step here.  The clock is the time provider's *)
(* value; get_next_impl reads it twice (once inside clear_expired, once    *)
(* when it computes the new expiry), and the clock may move between the    *)
(* two reads, forwards or backwards.                                       *)
(*                                                                         *)
(* Expiries are sums of two i64.  A sum that leaves the range of i64       *)
(* panics in a build with overflow checks (the debug profile) and wraps    *)
(* in a build without (the release profile).  A panic under the mutex      *)
(* poisons it: the guard is dropped as it was, and every later             *)
(* `lock().expect(..)` panics.                                             *)
(*                                                                         *)
(* The clock is the time in ms from the epoch that the time provider       *)
(* reads: the system clock for SystemTimeProvider (the provider of main),  *)
(* the field fixed_unix_ts_ms for FixedTimeProvider (the provider of the   *)
(* tests).  It may go forwards or backwards at any moment.  For a system   *)
(* time before the epoch SystemTimeProvider panics in                      *)
(* `expect("Time went backwards")`, which under the mutex poisons it too.  *)
(* System times lie within the i64 range of milliseconds.                  *)
(***************************************************************************)
EXTENDS Integers, Sequences, FiniteSets

\* ------------------------------------------------------------------ bounds
\* Largest identifier a pool may be configured with (MAX), next to the pool
\* of the scenario.
MaxId == 1
\* Small clock instants 0..MaxClock.
MaxClock == 1
\* Small lease timeouts 0..MaxTimeout.
MaxTimeout == 1

\* ------------------------------------------------------- program constants
DEFAULT_MIN == 1
TEST_TIMEOUT == 2000
ERROR_CODE_NO_ID_AVAILBLE == 1
ERROR_CODE_ID_EXPIRED == 2
ERROR_CODE_ID_NONEXISTENT == 3

\* ----------------------------------------------------------------- i64
\* i64::MAX and i64::MIN.  The integers TLC computes with are 32 bits wide,
\* so the model's i64 is the 32-bit signed integer: I64_MAX stands for
\* 9223372036854775807 and I64_MIN for -9223372036854775808.  Every value
\* of the model lies within 2^30 of 0, of I64_MIN or of I64_MAX, and on
\* such values the order, the sums that overflow and the values they wrap
\* to are the same at both widths, counted from 0, from MIN and from MAX
\* (MAX + 1 = MIN, MIN - 1 = MAX, MAX + MAX = -2).
I64_MAX == 2147483647
I64_MIN == -I64_MAX - 1

\* Values of MIN, MAX and TIMEOUT the process may be started with.  MAX may
\* lie below MIN (an empty pool); TIMEOUT is any i64: negative, or i64::MAX.
MinIds == DEFAULT_MIN .. (DEFAULT_MIN + 1)
MaxIds == 0 .. MaxId
Timeouts == {-1} \cup (0 .. MaxTimeout) \cup {I64_MAX}
\* The configuration of the reference scenario: MIN, MAX, TIMEOUT.
SCENARIO_MAX == 3
\* The time providers an AppState is built with: main's and the tests'.
TimeProviders == {"SystemTimeProvider", "FixedTimeProvider"}
ScenarioConfig == <<DEFAULT_MIN, SCENARIO_MAX, TEST_TIMEOUT, "FixedTimeProvider">>
\* The configurations (MIN, MAX, TIMEOUT, time provider) a state is built with.
Configs == (MinIds \X MaxIds \X Timeouts \X TimeProviders) \cup {ScenarioConfig}
\* Clock values (ms from the epoch).  With the timeout of the scenario its
\* instants 0, 1000 and 2500; else 0..MaxClock and, for the system clock, a
\* time before the epoch, for a FixedTimeProvider (any i64) i64::MIN.
InstantsFor(tmo, provider) ==
    IF tmo = TEST_TIMEOUT
    THEN {0, TEST_TIMEOUT \div 2, TEST_TIMEOUT + TEST_TIMEOUT \div 4}
    ELSE IF provider = "SystemTimeProvider"
         THEN (0 .. MaxClock) \cup {-1}
         ELSE (0 .. MaxClock) \cup {I64_MIN}
\* Amounts FixedTimeProvider::add is called with: any i64.
Deltas == {-1, 1, TEST_TIMEOUT \div 2, I64_MAX}

VARIABLES
    id_min,             \* main: id_min
    id_max,             \* main: id_max
    timeout,            \* AppState.timeout
    time_provider,      \* AppState.time_provider: which implementation it is
    expires,            \* AppState.expires: BTreeMap<usize, i64>
    availables,         \* AppState.availables: VecDeque<usize>
    fixed_unix_ts_ms,   \* the clock: FixedTimeProvider's field, or the system time, in
                        \* ms from the epoch
    overflow_checks,    \* the build: TRUE with overflow checks (debug), FALSE without (release)
    poisoned,           \* Mutex<AppState>: a thread has panicked while it held the guard
    last,               \* the last handler call: its inputs, its result and the state before it
    streak,             \* number of get_next calls made so far, while nothing else was
                        \* called and no lease had reached its expiry; -1 once broken
    issued,             \* the ids those calls returned, in order
    scen,               \* how many steps of the reference scenario have been replayed; -1 if off
    leases,             \* per id, the leases issued for it so far: 0, 1, or 2 for two or more
    went_back,          \* the clock has at some moment taken a value below the one it had
    lock,               \* Mutex<AppState>: the caller holding the guard, or NoHolder
    pc,                 \* per caller, where its handler stands
    loc,                \* per caller, the locals of its handler
    serial              \* the pool as the handlers run one after the other, whole and in
                        \* the order in which they took the lock, leave it

vars == <<id_min, id_max, timeout, time_provider, expires, availables,
          fixed_unix_ts_ms, overflow_checks, poisoned,
          last, streak, issued, scen, leases, went_back, lock, pc, loc, serial>>

\* The clock values of the configuration at hand.
Instants == InstantsFor(timeout, time_provider)

\* Ids a heartbeat request may carry (any usize of the path): 0, the ids up
\* to MAX and one past it.
HeartbeatIds == 0 .. (id_max + 1)

\* The request-handling tasks that may run handlers at the same time.
Callers == {"A", "B"}
NoHolder == "none"

\* The configuration, fixed when the process starts.
config == <<id_min, id_max, timeout, time_provider, overflow_checks>>

\* The variables of the handlers' steps under the mutex, the variables that
\* record whole calls, and those with the record of the clock.
lockvars == <<lock, pc, loc, serial>>
calls == <<last, streak, issued, scen, leases>>
callvars == <<calls, went_back>>

\* ----------------------------------------------------------------- helpers
EmptyMap == [k \in {} |-> 0]

\* BTreeMap::insert
MapInsert(m, k, v) == [x \in (DOMAIN m) \cup {k} |-> IF x = k THEN v ELSE m[x]]

\* BTreeMap::remove of every key in S
MapRemove(m, S) == [x \in (DOMAIN m) \ S |-> m[x]]

\* Variant of Ascending: the keys in descending order.
RECURSIVE Ascending_descending(_)
Ascending_descending(S) ==
    IF S = {} THEN <<>>
    ELSE LET m == CHOOSE x \in S : \A y \in S : x >= y
         IN <<m>> \o Ascending_descending(S \ {m})

\* The elements of a finite set of integers in ascending order: the order in
\* which BTreeMap::iter visits its keys.
RECURSIVE Ascending(_)
Ascending(S) ==
    IF S = {} THEN <<>>
    ELSE LET m == CHOOSE x \in S : \A y \in S : x <= y
         IN <<m>> \o Ascending(S \ {m})

\* (id_min..=id_max).collect(): empty when id_min > id_max
RangeInclusive(lo, hi) == [i \in 1 .. (hi - lo + 1) |-> lo + i - 1]

SeqSet(s) == {s[i] : i \in 1 .. Len(s)}

\* The results, in one shape: Ok((id, exp)) / Ok(exp) / Err(code), and the
\* call that returns nothing because it panicked.
Ok(id, exp) == [ok |-> TRUE, code |-> 0, id |-> id, exp |-> exp]
Err(code) == [ok |-> FALSE, code |-> code, id |-> 0, exp |-> 0]
Panicked == [ok |-> FALSE, code |-> -1, id |-> 0, exp |-> 0]

\* a + b leaves the range of i64.
Overflows(a, b) ==
    \/ b > 0 /\ a > I64_MAX - b
    \/ b < 0 /\ a < I64_MIN - b

\* i64::wrapping_add: a + b modulo 2^64, what `+` gives without overflow checks.
wrapping_add(a, b) ==
    IF b > 0 /\ a > I64_MAX - b THEN (a - I64_MAX) + (b - 1) + I64_MIN
    ELSE IF b < 0 /\ a < I64_MIN - b THEN (a - I64_MIN) + (b + 1) + I64_MAX
    ELSE a + b

\* `a + b` on two i64, as the build computes it: with overflow checks a sum
\* out of range panics ('attempt to add with overflow'), without it wraps.
i64_add(a, b) ==
    [panic |-> overflow_checks /\ Overflows(a, b), value |-> wrapping_add(a, b)]

\* TimeProvider::unix_ts_ms with the clock at t: SystemTimeProvider panics in
\* `expect("Time went backwards")` when the system time is before the epoch,
\* and returns the milliseconds since the epoch otherwise; FixedTimeProvider
\* returns its field.
unix_ts_ms(t) ==
    [panic |-> time_provider = "SystemTimeProvider" /\ t < 0, value |-> t]

\* ------------------------------------------------------------ clear_expired
\* Variant of IsExpired: the comparison turned round, so that a lease still
\* running counts as lapsed.
IsExpired_reversed(expire, now) == expire >= now

\* `if expire <= now`
IsExpired(expire, now) == expire <= now

\* The ids pushed to `expireds` by the scan of state.expires.
Expireds(exp, now) == {id \in DOMAIN exp : IsExpired(exp[id], now)}

\* Variant of clear_expired without `state.availables.push_back(*id)`.
clear_expired_drops_id(exp, av, now) ==
    LET expireds == Ascending(Expireds(exp, now))
    IN [expires |-> MapRemove(exp, SeqSet(expireds)),
        availables |-> av,
        count |-> Len(expireds)]

\* Variant of clear_expired that puts the reclaimed ids at the front (push_front).
clear_expired_push_front(exp, av, now) ==
    LET expireds == Ascending(Expireds(exp, now))
    IN [expires |-> MapRemove(exp, SeqSet(expireds)),
        availables |-> expireds \o av,
        count |-> Len(expireds)]

\* clear_expired: removes every expired id from `expires`, pushes it to the
\* back of `availables` in key order, and returns how many there were.
clear_expired(exp, av, now) ==
    LET expireds == Ascending(Expireds(exp, now))
    IN [expires |-> MapRemove(exp, SeqSet(expireds)),
        availables |-> av \o expireds,
        count |-> Len(expireds)]

\* ------------------------------------------------------------ get_next_impl
\* `let expire = now + state.timeout` of get_next_impl
NextExpire(now, tmo) == i64_add(now, tmo)

\* `state.availables.pop_front()` on a non-empty queue: the id taken and the
\* queue left.
PopFront(av) == [id |-> Head(av), rest |-> Tail(av)]

\* get_next_impl, with t1 the clock when clear_expired reads it and t2 the
\* clock when it is read after the pop.  `popped` is the id pop_front took,
\* if any, and `swept` tells that clear_expired ran.  A panic of the first
\* read comes before any change; a panic of the second read or of the sum
\* comes after the pop and before the insert.
get_next_impl(exp, av, tmo, t1, t2) ==
    LET now1 == unix_ts_ms(t1)
        c == clear_expired(exp, av, now1.value)
    IN IF now1.panic
       THEN [result |-> Panicked,
             expires |-> exp,
             availables |-> av,
             count |-> 0,
             popped |-> <<>>,
             swept |-> FALSE]
       ELSE IF c.availables # <<>>
       THEN LET p == PopFront(c.availables)
                id_next == p.id
                now == unix_ts_ms(t2)
                expire == NextExpire(now.value, tmo)
            IN IF now.panic \/ expire.panic
               THEN [result |-> Panicked,
                     expires |-> c.expires,
                     availables |-> p.rest,
                     count |-> c.count,
                     popped |-> <<id_next>>,
                     swept |-> TRUE]
               ELSE [result |-> Ok(id_next, expire.value),
                     expires |-> MapInsert(c.expires, id_next, expire.value),
                     availables |-> p.rest,
                     count |-> c.count,
                     popped |-> <<id_next>>,
                     swept |-> TRUE]
       ELSE [result |-> Err(ERROR_CODE_NO_ID_AVAILBLE),
             expires |-> c.expires,
             availables |-> c.availables,
             count |-> c.count,
             popped |-> <<>>,
             swept |-> TRUE]

\* ------------------------------------------------------- get_heartbeat_impl
\* Variant of IsLive with the comparison turned round.
IsLive_reversed(expire, now) == expire < now

\* `if expire > now`
IsLive(expire, now) == expire > now

\* `let expire = now + state.timeout` of get_heartbeat_impl
HeartbeatExpire(now, tmo) == i64_add(now, tmo)

\* Variant of get_heartbeat_impl that starts a lease for an id it does not know.
get_heartbeat_impl_upsert(id, exp, av, tmo, t) ==
    LET now == unix_ts_ms(t)
        expire == HeartbeatExpire(now.value, tmo)
    IN IF id \in DOMAIN exp /\ now.panic
       THEN [result |-> Panicked, expires |-> exp, availables |-> av]
       ELSE IF id \in DOMAIN exp /\ ~IsLive(exp[id], now.value)
       THEN [result |-> Err(ERROR_CODE_ID_EXPIRED),
             expires |-> exp,
             availables |-> av]
       ELSE IF expire.panic
       THEN [result |-> Panicked, expires |-> exp, availables |-> av]
       ELSE [result |-> Ok(id, expire.value),
             expires |-> MapInsert(exp, id, expire.value),
             availables |-> av]

\* Variant of get_heartbeat_impl that queues an expired id and leaves its
\* entry in the lease table.
get_heartbeat_impl_half_reclaim(id, exp, av, tmo, t) ==
    IF id \in DOMAIN exp
    THEN LET now == unix_ts_ms(t)
             expire == HeartbeatExpire(now.value, tmo)
         IN IF now.panic
            THEN [result |-> Panicked, expires |-> exp, availables |-> av]
            ELSE IF IsLive(exp[id], now.value)
            THEN IF expire.panic
                 THEN [result |-> Panicked, expires |-> exp, availables |-> av]
                 ELSE [result |-> Ok(id, expire.value),
                       expires |-> MapInsert(exp, id, expire.value),
                       availables |-> av]
            ELSE [result |-> Err(ERROR_CODE_ID_EXPIRED),
                  expires |-> exp,
                  availables |-> Append(av, id)]
    ELSE [result |-> Err(ERROR_CODE_ID_NONEXISTENT),
          expires |-> exp,
          availables |-> av]

\* get_heartbeat_impl, with t the clock when it is read (it is read only for
\* an id of the lease table): a panic of the read or of the sum comes before
\* the insert.
get_heartbeat_impl(id, exp, av, tmo, t) ==
    IF id \in DOMAIN exp
    THEN LET now == unix_ts_ms(t)
             expire == HeartbeatExpire(now.value, tmo)
         IN IF now.panic
            THEN [result |-> Panicked, expires |-> exp, availables |-> av]
            ELSE IF IsLive(exp[id], now.value)
            THEN IF expire.panic
                 THEN [result |-> Panicked, expires |-> exp, availables |-> av]
                 ELSE [result |-> Ok(id, expire.value),
                       expires |-> MapInsert(exp, id, expire.value),
                       availables |-> av]
            ELSE [result |-> Err(ERROR_CODE_ID_EXPIRED),
                  expires |-> exp,
                  availables |-> av]
    ELSE [result |-> Err(ERROR_CODE_ID_NONEXISTENT),
          expires |-> exp,
          availables |-> av]

\* ------------------------------------------------------ reference scenario
\* min=1, max=3, timeout=2000: the calls of the scenario, in order.
ScenarioCalls ==
    << [op |-> "next", arg |-> 0, now |-> 0],
       [op |-> "next", arg |-> 0, now |-> 0],
       [op |-> "next", arg |-> 0, now |-> 0],
       [op |-> "next", arg |-> 0, now |-> 0],
       [op |-> "heartbeat", arg |-> 1, now |-> TEST_TIMEOUT \div 2],
       [op |-> "heartbeat", arg |-> 2, now |-> TEST_TIMEOUT + TEST_TIMEOUT \div 4],
       [op |-> "next", arg |-> 0, now |-> TEST_TIMEOUT + TEST_TIMEOUT \div 4] >>

\* The scenario position after a call (op, arg) whose clock reads were now1, now2.
ScenarioStep(op, arg, now1, now2) ==
    IF /\ scen >= 0
       /\ scen < Len(ScenarioCalls)
       /\ ScenarioCalls[scen + 1] = [op |-> op, arg |-> arg, now |-> now1]
       /\ now2 = now1
    THEN scen + 1
    ELSE -1

\* -------------------------------------------------------------------- Init
\* The locals of a handler that is not running.
NoLocals == [op |-> "none", id |-> 0, now |-> 0, now2 |-> 0, expireds |-> <<>>,
             id_next |-> 0, result |-> Err(0), serial_result |-> Err(0)]

\* main: the state built before the server starts, for a configuration of C.
InitFrom(C) ==
    /\ \E cfg \in C :
          /\ id_min = cfg[1]
          /\ id_max = cfg[2]
          /\ timeout = cfg[3]
          /\ time_provider = cfg[4]
    /\ expires = EmptyMap
    /\ availables = RangeInclusive(id_min, id_max)
    /\ fixed_unix_ts_ms = 0
    /\ overflow_checks \in BOOLEAN
    /\ poisoned = FALSE
    /\ last = [op |-> "init", arg |-> 0, now |-> 0, now2 |-> 0,
               result |-> Err(0), count |-> 0, popped |-> <<>>, swept |-> FALSE,
               pre_expires |-> EmptyMap, pre_availables |-> <<>>]
    /\ went_back = FALSE
    /\ streak = 0
    /\ issued = <<>>
    /\ scen = IF <<id_min, id_max, timeout, time_provider>> = ScenarioConfig THEN 0 ELSE -1
    /\ leases = [i \in HeartbeatIds |-> 0]
    /\ lock = NoHolder
    /\ pc = [c \in Callers |-> "idle"]
    /\ loc = [c \in Callers |-> NoLocals]
    /\ serial = [expires |-> EmptyMap, availables |-> RangeInclusive(id_min, id_max),
                 poisoned |-> FALSE]

Init == InitFrom(Configs)

\* ----------------------------------------------------------------- actions
\* No lease of the table has reached its expiry at clock value now.
NoneExpired(exp, now) == \A id \in DOMAIN exp : exp[id] > now

\* A handler is called while the mutex is poisoned: `state.lock().expect(..)`
\* panics and the handler's _impl function is not run.
poisoned_call ==
    /\ poisoned
    /\ last' = [op |-> "poisoned", arg |-> 0, now |-> 0, now2 |-> 0,
                result |-> Panicked, count |-> 0, popped |-> <<>>, swept |-> FALSE,
                pre_expires |-> expires, pre_availables |-> availables]
    /\ UNCHANGED <<config, expires, availables, fixed_unix_ts_ms, poisoned,
                   streak, issued, scen, leases, went_back, lockvars>>

\* GET /next: get_next locks the state and runs get_next_impl.  The clock is
\* read at now1 by clear_expired and again, at now2, for the expiry; between
\* the two reads it may have moved either way.
get_next ==
    \/ poisoned_call
    \/ /\ ~poisoned
       /\ \E now2 \in Instants :
            LET now1 == fixed_unix_ts_ms
                r == get_next_impl(expires, availables, timeout, now1, now2)
                fresh == /\ streak >= 0
                         /\ streak <= Len(RangeInclusive(id_min, id_max))
                         /\ NoneExpired(expires, now1)
                         /\ NoneExpired(expires, now2)
            IN /\ expires' = r.expires
               /\ availables' = r.availables
               /\ fixed_unix_ts_ms' = now2
               /\ poisoned' = (r.result = Panicked)
               /\ last' = [op |-> "next", arg |-> 0, now |-> now1, now2 |-> now2,
                           result |-> r.result, count |-> r.count, popped |-> r.popped,
                           swept |-> r.swept,
                           pre_expires |-> expires, pre_availables |-> availables]
               /\ went_back' = (went_back \/ now2 < now1)
               /\ streak' = IF fresh THEN streak + 1 ELSE -1
               /\ issued' = IF fresh /\ r.result.ok
                            THEN Append(issued, r.result.id)
                            ELSE IF fresh THEN issued ELSE <<>>
               /\ scen' = ScenarioStep("next", 0, now1, now2)
               /\ leases' = IF r.result.ok
                             THEN [leases EXCEPT ![r.result.id] = IF @ = 0 THEN 1 ELSE 2]
                             ELSE leases
       /\ UNCHANGED <<config, lockvars>>

\* GET /heartbeat/:id: get_heartbeat locks the state and runs get_heartbeat_impl.
get_heartbeat ==
    \/ poisoned_call
    \/ /\ ~poisoned
       /\ \E id \in HeartbeatIds :
            LET now == fixed_unix_ts_ms
                r == get_heartbeat_impl(id, expires, availables, timeout, now)
            IN /\ expires' = r.expires
               /\ availables' = r.availables
               /\ poisoned' = (r.result = Panicked)
               /\ last' = [op |-> "heartbeat", arg |-> id, now |-> now, now2 |-> now,
                           result |-> r.result, count |-> 0, popped |-> <<>>,
                           swept |-> FALSE,
                           pre_expires |-> expires, pre_availables |-> availables]
               /\ streak' = -1
               /\ issued' = <<>>
               /\ scen' = ScenarioStep("heartbeat", id, now, now)
       /\ UNCHANGED <<config, fixed_unix_ts_ms, leases, went_back, lockvars>>

\* Variant of set_in in which moving the clock also reclaims the lapsed
\* leases (a background sweep).
set_in_sweeps(S) ==
    /\ time_provider = "FixedTimeProvider"
    /\ \E ms \in S :
        /\ fixed_unix_ts_ms' = ms
        /\ went_back' = (went_back \/ ms < fixed_unix_ts_ms)
        /\ expires' = clear_expired(expires, availables, ms).expires
        /\ availables' = clear_expired(expires, availables, ms).availables
        /\ UNCHANGED <<config, poisoned, calls, lockvars>>

\* FixedTimeProvider::set with ms drawn from S: the clock takes the value ms,
\* whatever it was.  No handler runs.
set_in(S) ==
    /\ time_provider = "FixedTimeProvider"
    /\ \E ms \in S :
        /\ fixed_unix_ts_ms' = ms
        /\ went_back' = (went_back \/ ms < fixed_unix_ts_ms)
        /\ UNCHANGED <<config, expires, availables, poisoned, calls, lockvars>>

set == set_in(Instants)

\* FixedTimeProvider::add with ms drawn from D: `fixed_unix_ts_ms += ms`, a sum
\* of two i64; when it panics the clock keeps its value.  The clock stays
\* within S.
add_in(D, S) ==
    /\ time_provider = "FixedTimeProvider"
    /\ \E ms \in D :
        LET sum == i64_add(fixed_unix_ts_ms, ms)
            after == IF sum.panic THEN fixed_unix_ts_ms ELSE sum.value
        IN /\ sum.panic \/ sum.value \in S
           /\ fixed_unix_ts_ms' = after
           /\ went_back' = (went_back \/ after < fixed_unix_ts_ms)
           /\ UNCHANGED <<config, expires, availables, poisoned, calls, lockvars>>

add == add_in(Deltas, Instants)

\* The system clock, which SystemTimeProvider reads through SystemTime::now,
\* takes a value of S: time passes, or the clock is stepped, either way.
system_clock_in(S) ==
    /\ time_provider = "SystemTimeProvider"
    /\ \E ms \in S :
        /\ fixed_unix_ts_ms' = ms
        /\ went_back' = (went_back \/ ms < fixed_unix_ts_ms)
        /\ UNCHANGED <<config, expires, availables, poisoned, calls, lockvars>>

system_clock == system_clock_in(Instants)

Next == get_next \/ get_heartbeat \/ set \/ add \/ system_clock

Spec == Init /\ [][Next]_vars

\* ------------------------------------------------------ handlers, by step
\* The same handlers with each statement under the mutex as a step of its
\* own, run by several callers at once.

\* Variant of LockFree: lock() that never waits.
LockFree_always == TRUE

\* `state.lock()` returns only when no other guard is alive.
LockFree == lock = NoHolder

\* The steps a caller makes while it holds the guard.
CriticalPcs == {"scan", "remove", "push", "pop", "insert", "lookup", "unlock"}

\* A request for GET /next arrives: get_next starts.
call_next(c) ==
    /\ pc[c] = "idle"
    /\ pc' = [pc EXCEPT ![c] = "lock_next"]
    /\ loc' = [loc EXCEPT ![c] = [NoLocals EXCEPT !.op = "next"]]
    /\ UNCHANGED <<config, expires, availables, fixed_unix_ts_ms,
                   poisoned, callvars, lock, serial>>

\* A request for GET /heartbeat/:id arrives: get_heartbeat starts.
call_heartbeat(c) ==
    \E id \in HeartbeatIds :
        /\ pc[c] = "idle"
        /\ pc' = [pc EXCEPT ![c] = "lock_heartbeat"]
        /\ loc' = [loc EXCEPT ![c] = [NoLocals EXCEPT !.op = "heartbeat", !.id = id]]
        /\ UNCHANGED <<config, expires, availables, fixed_unix_ts_ms,
                       poisoned, callvars, lock, serial>>

\* `state.lock().expect(..)` of get_next and of get_heartbeat: it waits for
\* the mutex, and panics in `expect` when the mutex is poisoned (the guard
\* inside the error is dropped at once).
lock_acquire(c) ==
    /\ pc[c] \in {"lock_next", "lock_heartbeat"}
    /\ LockFree
    /\ IF poisoned
       THEN /\ lock' = lock
            /\ pc' = [pc EXCEPT ![c] = "panicked"]
            /\ loc' = [loc EXCEPT ![c].result = Panicked,
                                  ![c].serial_result =
                                      IF serial.poisoned THEN Panicked ELSE Err(0)]
       ELSE /\ lock' = c
            /\ pc' = [pc EXCEPT ![c] = IF pc[c] = "lock_next" THEN "scan" ELSE "lookup"]
            /\ loc' = loc
    /\ UNCHANGED <<config, expires, availables, fixed_unix_ts_ms, poisoned,
                   callvars, serial>>

\* clear_expired: `state.expires.remove(id)` of the next id of `expireds`, or
\* the end of the loop.
remove(c) ==
    /\ pc[c] = "remove"
    /\ IF loc[c].expireds /= <<>>
       THEN /\ expires' = MapRemove(expires, {Head(loc[c].expireds)})
            /\ pc' = [pc EXCEPT ![c] = "push"]
       ELSE /\ expires' = expires
            /\ pc' = [pc EXCEPT ![c] = "pop"]
    /\ UNCHANGED <<config, availables, fixed_unix_ts_ms,
                   poisoned, callvars, lock, loc, serial>>

\* clear_expired: `state.availables.push_back(*id)`.
push(c) ==
    /\ pc[c] = "push"
    /\ availables' = Append(availables, Head(loc[c].expireds))
    /\ loc' = [loc EXCEPT ![c].expireds = Tail(@)]
    /\ pc' = [pc EXCEPT ![c] = "remove"]
    /\ UNCHANGED <<config, expires, fixed_unix_ts_ms,
                   poisoned, callvars, lock, serial>>

\* get_next_impl: `state.availables.pop_front()`, and Err when there is none.
pop(c) ==
    /\ pc[c] = "pop"
    /\ IF availables /= <<>>
       THEN /\ availables' = PopFront(availables).rest
            /\ loc' = [loc EXCEPT ![c].id_next = PopFront(availables).id]
            /\ pc' = [pc EXCEPT ![c] = "insert"]
       ELSE /\ availables' = availables
            /\ loc' = [loc EXCEPT ![c].result = Err(ERROR_CODE_NO_ID_AVAILBLE),
                                  ![c].now2 = loc[c].now]
            /\ pc' = [pc EXCEPT ![c] = "unlock"]
    /\ UNCHANGED <<config, expires, fixed_unix_ts_ms,
                   poisoned, callvars, lock, serial>>

\* What the call with locals l, run whole on the pool `serial`, gives.
SerialCall(l) ==
    IF l.op = "next"
    THEN get_next_impl(serial.expires, serial.availables, timeout, l.now, l.now2)
    ELSE get_heartbeat_impl(l.id, serial.expires, serial.availables, timeout, l.now)

\* The pool `serial` after that call.
SerialAfter(l) ==
    [expires |-> SerialCall(l).expires,
     availables |-> SerialCall(l).availables,
     poisoned |-> SerialCall(l).result = Panicked]

\* A panic while caller c, with locals l, holds the guard: the unwinding
\* drops the guard, which releases the mutex and poisons it.
panic_under_guard(c, l) ==
    /\ lock' = NoHolder
    /\ poisoned' = TRUE
    /\ serial' = SerialAfter(l)
    /\ loc' = [loc EXCEPT ![c] = [l EXCEPT !.serial_result = SerialCall(l).result]]
    /\ pc' = [pc EXCEPT ![c] = "panicked"]

\* clear_expired: the clock read (or its panic) and the scan that collects
\* `expireds`.
scan(c) ==
    /\ pc[c] = "scan"
    /\ LET now == unix_ts_ms(fixed_unix_ts_ms)
           l == [loc[c] EXCEPT !.now = fixed_unix_ts_ms,
                               !.now2 = fixed_unix_ts_ms,
                               !.result = Panicked]
       IN IF now.panic
          THEN panic_under_guard(c, l)
          ELSE /\ loc' = [loc EXCEPT ![c].now = now.value,
                                     ![c].expireds = Ascending(Expireds(expires, now.value))]
               /\ pc' = [pc EXCEPT ![c] = "remove"]
               /\ UNCHANGED <<lock, poisoned, serial>>
    /\ UNCHANGED <<config, expires, availables, fixed_unix_ts_ms, callvars>>

\* get_next_impl: the second clock read, the new expiry (or the panic of the
\* read or of the sum) and the insert.
insert(c) ==
    /\ pc[c] = "insert"
    /\ LET now == unix_ts_ms(fixed_unix_ts_ms)
           expire == NextExpire(now.value, timeout)
           l == [loc[c] EXCEPT !.now2 = fixed_unix_ts_ms,
                               !.result = IF now.panic \/ expire.panic THEN Panicked
                                          ELSE Ok(loc[c].id_next, expire.value)]
       IN IF now.panic \/ expire.panic
          THEN /\ expires' = expires
               /\ panic_under_guard(c, l)
          ELSE /\ expires' = MapInsert(expires, loc[c].id_next, expire.value)
               /\ loc' = [loc EXCEPT ![c] = l]
               /\ pc' = [pc EXCEPT ![c] = "unlock"]
               /\ UNCHANGED <<lock, poisoned, serial>>
    /\ UNCHANGED <<config, availables, fixed_unix_ts_ms, callvars>>

\* get_heartbeat_impl: the lookup, the clock read, and the insert, the error
\* or the panic in the sum.
lookup(c) ==
    /\ pc[c] = "lookup"
    /\ LET now == fixed_unix_ts_ms
           r == get_heartbeat_impl(loc[c].id, expires, availables, timeout, now)
           l == [loc[c] EXCEPT !.now = now, !.now2 = now, !.result = r.result]
       IN /\ expires' = r.expires
          /\ availables' = r.availables
          /\ IF r.result = Panicked
             THEN panic_under_guard(c, l)
             ELSE /\ loc' = [loc EXCEPT ![c] = l]
                  /\ pc' = [pc EXCEPT ![c] = "unlock"]
                  /\ UNCHANGED <<lock, poisoned, serial>>
    /\ UNCHANGED <<config, fixed_unix_ts_ms, callvars>>

\* The end of get_next_impl / get_heartbeat_impl: the guard goes out of scope
\* and the mutex is released.
unlock(c) ==
    /\ pc[c] = "unlock"
    /\ lock' = NoHolder
    /\ serial' = SerialAfter(loc[c])
    /\ loc' = [loc EXCEPT ![c].serial_result = SerialCall(loc[c]).result]
    /\ pc' = [pc EXCEPT ![c] = "respond"]
    /\ UNCHANGED <<config, expires, availables, fixed_unix_ts_ms, poisoned, callvars>>

\* The handler turns the result into the JSON body and returns.
respond(c) ==
    /\ pc[c] = "respond"
    /\ pc' = [pc EXCEPT ![c] = "idle"]
    /\ loc' = [loc EXCEPT ![c] = NoLocals]
    /\ UNCHANGED <<config, expires, availables, fixed_unix_ts_ms, poisoned,
                   callvars, lock, serial>>

\* The handler's task ends by its panic: the request gets no response.
unwind(c) ==
    /\ pc[c] = "panicked"
    /\ pc' = [pc EXCEPT ![c] = "idle"]
    /\ loc' = [loc EXCEPT ![c] = NoLocals]
    /\ UNCHANGED <<config, expires, availables, fixed_unix_ts_ms, poisoned,
                   callvars, lock, serial>>

\* The steps of caller c once its handler has the guard.
Inside(c) ==
    scan(c) \/ remove(c) \/ push(c) \/ pop(c) \/ insert(c) \/ lookup(c) \/ unlock(c)

\* The values of the system clock in the step-level specification.
LockInstants == {-1, 0, 1}

NextLock ==
    \/ \E c \in Callers :
          \/ call_next(c)
          \/ call_heartbeat(c)
          \/ lock_acquire(c)
          \/ scan(c)
          \/ remove(c)
          \/ push(c)
          \/ pop(c)
          \/ insert(c)
          \/ lookup(c)
          \/ unlock(c)
          \/ respond(c)
          \/ unwind(c)
    \/ system_clock_in(LockInstants)

\* The configurations the step-level specification starts from, all with
\* the provider of main, whose handlers these steps are: pools of one
\* and of two ids from DEFAULT_MIN; leases that lapse at once or after 1 ms,
\* and the timeout i64::MAX, whose sum with a clock value >= 1 overflows.
LockMaxIds == {DEFAULT_MIN, DEFAULT_MIN + 1}
LockTimeouts == {0, 1, I64_MAX}
LockConfigs == {DEFAULT_MIN} \X LockMaxIds \X LockTimeouts \X {"SystemTimeProvider"}

InitLock == InitFrom(LockConfigs)

SpecLock == InitLock /\ [][NextLock]_vars

\* SpecLock with a thread that holds the guard running on to the end of its
\* handler, a task that has panicked ending, and a fair mutex: a caller that
\* asks for the lock gets it if the lock is free again and again.
SpecLockFair ==
    /\ InitLock
    /\ [][NextLock]_vars
    /\ \A c \in Callers :
          /\ WF_vars(Inside(c))
          /\ WF_vars(respond(c))
          /\ WF_vars(unwind(c))
          /\ SF_vars(lock_acquire(c))

\* ------------------------------------------------------------------- types
TypeOK ==
    /\ <<id_min, id_max, timeout, time_provider>> \in Configs \cup LockConfigs
    /\ went_back \in BOOLEAN
    /\ DOMAIN expires \subseteq Nat
    /\ \A id \in DOMAIN expires : expires[id] \in Int
    /\ availables \in Seq(Nat)
    /\ fixed_unix_ts_ms \in I64_MIN .. I64_MAX
    /\ overflow_checks \in BOOLEAN
    /\ poisoned \in BOOLEAN
    /\ \A id \in DOMAIN expires : expires[id] \in I64_MIN .. I64_MAX

\* ------------------------------------------------------------------ claims
\* The identifiers of the pool, [min, max], and their number.
PoolIds == id_min .. id_max
PoolSize == Cardinality(PoolIds)

NoDuplicates(s) == \A i, j \in 1 .. Len(s) : s[i] = s[j] => i = j

\* The leases of a table that have lapsed at clock value now.
Lapsed(exp, now) == {i \in DOMAIN exp : exp[i] <= now}

\* The i64 exp is the integer now + tmo; no i64 is when that sum is out of range.
IsSum(exp, now, tmo) == ~Overflows(now, tmo) /\ exp = now + tmo

\* C1 - closed partition: in every state reached by get_next, get_heartbeat
\* and advances of the clock, every identifier of [min, max] is in exactly
\* one of the queue and the lease table, the queue holds no identifier
\* twice, and neither holds an identifier outside [min, max].
C1_ClosedPartition ==
    ~went_back =>
        /\ \A id \in PoolIds : (id \in SeqSet(availables)) /= (id \in DOMAIN expires)
        /\ NoDuplicates(availables)
        /\ SeqSet(availables) \cup DOMAIN expires \subseteq PoolIds

\* C2 - no double issue: the id a successful get_next returns was queued
\* before the call, or was under a lease that had lapsed (expiry <= now) and
\* that this call's sweep reclaimed; every lease still running before the
\* call is still in the table, untouched, under another id.
C2_NoDoubleIssue ==
    (last.op = "next" /\ last.result.ok) =>
        LET id == last.result.id
            pre == last.pre_expires
        IN /\ id \in DOMAIN pre => pre[id] <= last.now
           /\ id \in DOMAIN pre \/ id \in SeqSet(last.pre_availables)
           /\ \A i \in DOMAIN pre :
                 pre[i] > last.now => i /= id /\ i \in DOMAIN expires /\ expires[i] = pre[i]

\* An id is issued again: it was under a lapsed lease before the call.
C2_Witness ==
    /\ last.op = "next" /\ last.result.ok
    /\ last.result.id \in DOMAIN last.pre_expires
    /\ \E i \in DOMAIN last.pre_expires : last.pre_expires[i] > last.now

\* C3 - exhaustion: from the initial pool of N ids, while only get_next is
\* called and no lease has reached its expiry, the first N calls succeed with
\* pairwise distinct ids and call N+1 fails with code 1.
C3_Exhaustion ==
    streak >= 1 =>
        /\ streak <= PoolSize =>
              /\ last.result.ok
              /\ Len(issued) = streak
              /\ issued[streak] = last.result.id
              /\ NoDuplicates(issued)
        /\ streak = PoolSize + 1 =>
              /\ last.result = Err(ERROR_CODE_NO_ID_AVAILBLE)
              /\ Len(issued) = PoolSize
              /\ NoDuplicates(issued)

\* C4 - renewal extends: a heartbeat for an id whose lease has expiry > now
\* returns Ok with expiry now + timeout, stores that expiry for the id, and
\* changes nothing else; the id is not in the queue.
C4_RenewalExtends ==
    (/\ last.op = "heartbeat"
     /\ last.arg \in DOMAIN last.pre_expires
     /\ last.pre_expires[last.arg] > last.now) =>
        /\ last.result.ok
        /\ last.result.id = last.arg
        /\ IsSum(last.result.exp, last.now, timeout)
        /\ last.arg \in DOMAIN expires
        /\ expires[last.arg] = last.result.exp
        /\ DOMAIN expires = DOMAIN last.pre_expires
        /\ \A i \in DOMAIN expires \ {last.arg} : expires[i] = last.pre_expires[i]
        /\ availables = last.pre_availables
        /\ last.arg \notin SeqSet(availables)

\* C5 - expiry reclaims: a heartbeat for an id whose lease has expiry <= now
\* returns code 2, and afterwards the id is out of the lease table and is the
\* last element of the queue.
C5_ExpiryReclaims ==
    (/\ last.op = "heartbeat"
     /\ last.arg \in DOMAIN last.pre_expires
     /\ last.pre_expires[last.arg] <= last.now) =>
        /\ last.result = Err(ERROR_CODE_ID_EXPIRED)
        /\ last.arg \notin DOMAIN expires
        /\ availables /= <<>>
        /\ availables[Len(availables)] = last.arg

\* C6 - unknown id: a heartbeat for an id that is not in the lease table
\* returns code 3 and leaves the queue and the lease table as they were.
C6_UnknownId ==
    (/\ last.op = "heartbeat"
     /\ last.arg \notin DOMAIN last.pre_expires) =>
        /\ last.result = Err(ERROR_CODE_ID_NONEXISTENT)
        /\ expires = last.pre_expires
        /\ availables = last.pre_availables

\* A heartbeat was refused for an id that had been leased and reclaimed (it
\* sits at the back of the queue behind a larger id) while leases exist.
C6_Witness ==
    /\ last.op = "heartbeat"
    /\ last.result = Err(ERROR_CODE_ID_NONEXISTENT)
    /\ Len(availables) >= 2
    /\ availables[Len(availables)] = last.arg
    /\ availables[1] > last.arg
    /\ DOMAIN expires /= {}

\* C7 - a failed get_next changes nothing: whenever get_next fails with
\* code 1, its sweep reclaimed nothing, and the queue and the lease table are
\* as before the call; and code 1 is the only error code get_next returns.
C7_FailedAcquireFrame ==
    /\ (last.op = "next" /\ ~last.result.ok /\ last.result /= Panicked) =>
          last.result = Err(ERROR_CODE_NO_ID_AVAILBLE)
    /\ (last.op = "next" /\ last.result = Err(ERROR_CODE_NO_ID_AVAILBLE)) =>
        /\ last.count = 0
        /\ expires = last.pre_expires
        /\ availables = last.pre_availables

\* get_next failed on a pool all of whose ids (at least two) are leased.
C7_Witness ==
    /\ last.op = "next" /\ last.result = Err(ERROR_CODE_NO_ID_AVAILBLE)
    /\ Cardinality(DOMAIN last.pre_expires) >= 2

\* C8 - successful get_next: when the queue is non-empty after the sweep,
\* get_next succeeds, takes the id at the front of that queue, stores it with
\* expiry now + timeout (now read when the lease is made), and returns that
\* pair; the ids queued before keep their order, the ids the sweep reclaimed
\* follow them, and every lease that had not lapsed is unchanged.
C8_SuccessfulAcquire ==
    last.op = "next" =>
        LET pre == last.pre_expires
            reclaimed == Lapsed(pre, last.now)
            queue == last.pre_availables
            n == Len(queue)
        IN /\ (queue /= <<>> \/ reclaimed /= {}) => last.result.ok
           /\ last.result.ok =>
                LET id == last.result.id
                    after == <<id>> \o availables
                IN /\ IsSum(last.result.exp, last.now2, timeout)
                   /\ id \in DOMAIN expires
                   /\ expires[id] = last.result.exp
                   /\ Len(after) = n + Cardinality(reclaimed)
                   /\ SubSeq(after, 1, n) = queue
                   /\ {after[k] : k \in (n + 1) .. Len(after)} = reclaimed
                   /\ DOMAIN expires = ((DOMAIN pre) \ reclaimed) \cup {id}
                   /\ \A i \in (DOMAIN pre) \ reclaimed : i /= id /\ expires[i] = pre[i]

\* The results of the scenario's calls, in order.
ScenarioResults ==
    << Ok(1, 2000), Ok(2, 2000), Ok(3, 2000), Err(ERROR_CODE_NO_ID_AVAILBLE),
       Ok(1, 3000), Err(ERROR_CODE_ID_EXPIRED), Ok(2, 4500) >>

\* C9 - scenario (min=1, max=3, timeout=2000): at t=0 four get_next give
\* (1,2000), (2,2000), (3,2000), code 1; at t=1000 heartbeat(1) gives
\* (1,3000); at t=2500 heartbeat(2) gives code 2 and the queue is then [2];
\* at t=2500 get_next gives (2,4500) and leaves the queue [3].
C9_Scenario ==
    scen >= 1 =>
        /\ last.result = ScenarioResults[scen]
        /\ scen = 6 => availables = <<2>>
        /\ scen = 7 => availables = <<3>>

\* C10 - single time sample: the expiry a successful get_next returns is the
\* clock value its sweep used plus the timeout.
C10_SingleTimeSample ==
    (last.op = "next" /\ last.result.ok) =>
        IsSum(last.result.exp, last.now, timeout)

\* The queue and the lease table as the sweep of the last get_next left them,
\* before the pop took an id from the front and the insert stored its lease.
SweptQueue == last.popped \o availables
SweptTable ==
    IF last.result.ok THEN MapRemove(expires, {last.result.id}) ELSE expires

\* C11 - sweep: the sweep at clock value now (the sweep of a get_next that
\* has read the clock) removes from the lease table exactly the entries with
\* expiry <= now (expiry = now included), leaves the others as they are,
\* puts the reclaimed ids behind the ids already queued in ascending order,
\* and returns their number.
C11_SweepExpired ==
    (last.op = "next" /\ last.swept) =>
        LET pre == last.pre_expires
            reclaimed == Lapsed(pre, last.now)
            n == Len(last.pre_availables)
        IN /\ last.count = Cardinality(reclaimed)
           /\ DOMAIN SweptTable = (DOMAIN pre) \ reclaimed
           /\ \A i \in DOMAIN SweptTable : SweptTable[i] = pre[i]
           /\ Len(SweptQueue) = n + last.count
           /\ SubSeq(SweptQueue, 1, n) = last.pre_availables
           /\ {SweptQueue[k] : k \in (n + 1) .. Len(SweptQueue)} = reclaimed
           /\ \A j, k \in (n + 1) .. Len(SweptQueue) :
                 j < k => SweptQueue[j] < SweptQueue[k]

\* A sweep reclaimed two leases behind an id that was already queued.
C11_Witness ==
    /\ last.op = "next" /\ last.swept
    /\ last.count >= 2
    /\ last.pre_availables /= <<>>
    /\ SweptQueue[Len(SweptQueue) - 1] < SweptQueue[Len(SweptQueue)]

\* Position of id in queue q (0 if it is not queued).
Position(q, id) ==
    IF id \in SeqSet(q) THEN CHOOSE k \in 1 .. Len(q) : q[k] = id ELSE 0

\* C12 - FIFO reuse: in every step, an id queued behind another stays queued,
\* and stays behind it while that one is queued; an id that enters the queue
\* is placed behind every id that was waiting; so ids leave the queue in the
\* order in which they entered it.
C12_FifoReuse ==
    [][ /\ \A i, j \in 1 .. Len(availables) :
              i < j =>
                 /\ availables[j] \in SeqSet(availables')
                 /\ availables[i] \in SeqSet(availables') =>
                       Position(availables', availables[i]) < Position(availables', availables[j])
        /\ \A k \in 1 .. Len(availables') :
              availables'[k] \notin SeqSet(availables) =>
                 \A i \in 1 .. Len(availables) :
                    availables[i] \in SeqSet(availables') =>
                       Position(availables', availables[i]) < k
      ]_vars

\* A reclaimed id waited behind a larger id of the initial queue, and
\* get_next issued the one that had waited longer.
C12_Witness ==
    /\ last.op = "next" /\ last.result.ok
    /\ Len(last.pre_availables) >= 2
    /\ last.pre_availables[1] > last.pre_availables[2]
    /\ last.result.id = last.pre_availables[1]
    /\ availables /= <<>> /\ availables[1] = last.pre_availables[2]

\* C13 - get_next fails only on a truly exhausted pool: it returns code 1 if
\* and only if every id of [min, max] is in the lease table with expiry > now
\* (now being the one clock value a failing call reads); an id that is queued
\* or whose lease has expiry <= now makes it succeed.
C13_FailsOnlyWhenExhausted ==
    last.op = "next" =>
        LET pre == last.pre_expires
            exhausted == \A id \in PoolIds : id \in DOMAIN pre /\ pre[id] > last.now
        IN /\ (last.result = Err(ERROR_CODE_NO_ID_AVAILBLE)) <=> exhausted
           /\ last.result.ok <=> ~exhausted

\* Number of times id occurs in queue q.
Occurrences(q, id) == Cardinality({k \in 1 .. Len(q) : q[k] = id})

\* C14 - no double free: in every step, an id enters the queue only out of a
\* lease that had lapsed, and that lease is gone afterwards, so neither an
\* expired heartbeat nor a later sweep can free the same lease again; no id is
\* ever queued twice, and an id that is issued is no longer queued.
C14_NoDoubleFree ==
    [][ /\ \A i \in SeqSet(availables') :
              /\ Occurrences(availables', i) = 1
              /\ i \notin SeqSet(availables) =>
                    /\ i \in DOMAIN expires
                    /\ expires[i] <= fixed_unix_ts_ms
                    /\ i \notin DOMAIN expires'
        /\ (last' /= last /\ last'.result.ok) =>
              last'.result.id \notin SeqSet(availables')
      ]_vars

\* Both paths met the same lapsed lease: heartbeat(2) found it expired, and
\* the get_next that followed swept it (with that of id 3) and issued id 2,
\* which is then leased and not queued.
C14_Witness ==
    /\ scen = Len(ScenarioCalls)
    /\ last.op = "next" /\ last.count = 2
    /\ last.result.ok /\ last.result.id = 2
    /\ 2 \in DOMAIN expires
    /\ availables = <<3>>

\* C17 - lazy reclamation: every change of the queue or of the lease table
\* is made by a get_next or get_heartbeat call on the state as it was; a
\* step that only moves the clock changes neither, so a lapsed lease stays
\* in the table until such a call.
C17_LazyReclamation ==
    [][ (expires' /= expires \/ availables' /= availables) =>
            /\ last'.op \in {"next", "heartbeat"}
            /\ last'.pre_expires = expires
            /\ last'.pre_availables = availables
            /\ last'.now = fixed_unix_ts_ms
      ]_vars

\* The clock has moved past a lease's expiry since the last call, and the
\* lease is still in the table.
C17_Witness ==
    /\ last.op \in {"next", "heartbeat"}
    /\ last.now2 < fixed_unix_ts_ms
    /\ \E i \in DOMAIN expires :
          /\ expires[i] > last.now2
          /\ expires[i] < fixed_unix_ts_ms

\* C18 - initial state and first issue order: before any call the lease
\* table is empty and the queue is min, min+1, ..., max; while only get_next
\* is called and no lease has reached its expiry, call k <= N returns
\* min + k - 1; on an empty pool (min > max) every get_next fails with code 1.
C18_InitialOrder ==
    /\ last.op = "init" =>
          /\ expires = EmptyMap
          /\ Len(availables) = PoolSize
          /\ \A k \in 1 .. PoolSize : availables[k] = id_min + k - 1
    /\ (streak >= 1 /\ streak <= PoolSize) =>
          /\ Len(issued) = streak
          /\ \A k \in 1 .. streak : issued[k] = id_min + k - 1
    /\ (id_min > id_max /\ last.op = "next") =>
          last.result = Err(ERROR_CODE_NO_ID_AVAILBLE)

\* C20 - while the clock has never gone back, and with timeout >= 0: a
\* successful heartbeat does not shorten the lease, and no expiry in the
\* lease table exceeds the current clock value plus the timeout (a sum above
\* i64::MAX exceeds every expiry).
C20_ExpiryBounds ==
    (~went_back /\ timeout >= 0) =>
        /\ (last.op = "heartbeat" /\ last.result.ok) =>
              /\ last.result.exp >= last.pre_expires[last.arg]
              /\ expires[last.arg] >= last.pre_expires[last.arg]
        /\ \A i \in DOMAIN expires :
              \/ Overflows(fixed_unix_ts_ms, timeout)
              \/ expires[i] <= fixed_unix_ts_ms + timeout

\* C16 - stale renew: get_heartbeat takes nothing but the id, so a heartbeat
\* for an id that has been reclaimed and leased again (a lease its earlier
\* holder never got) is never refused while the current lease has
\* expiry > now: it gets no error code, and when it returns it returns Ok
\* for that id and has replaced the expiry of the current lease, every
\* other lease and the queue being as before.
C16_StaleRenewUndetected ==
    (/\ last.op = "heartbeat"
     /\ leases[last.arg] = 2
     /\ last.arg \in DOMAIN last.pre_expires
     /\ last.pre_expires[last.arg] > last.now) =>
        /\ last.result.code \notin {ERROR_CODE_NO_ID_AVAILBLE,
                                    ERROR_CODE_ID_EXPIRED,
                                    ERROR_CODE_ID_NONEXISTENT}
        /\ last.result /= Panicked =>
              /\ last.result.ok
              /\ last.result.id = last.arg
              /\ expires = MapInsert(last.pre_expires, last.arg, last.result.exp)
              /\ availables = last.pre_availables

\* The interleaving: id i was leased, the lease lapsed, a get_next reclaimed
\* i and leased it again, and a later heartbeat(i) extended the new lease.
C16_Witness ==
    /\ last.op = "heartbeat" /\ last.result.ok
    /\ leases[last.arg] = 2
    /\ expires[last.arg] > last.pre_expires[last.arg]

\* C15 - serialized operations: at most one caller is inside a handler's
\* critical section, and it is the holder of the one lock; the pool a caller
\* finds when it has got the guard, before its first read, is a closed
\* partition (a state with an id in neither structure exists only while
\* another caller holds the lock, or behind a poisoned mutex, whose guard no
\* caller gets); and whenever the lock is free, the pool, the poisoning and
\* every result are those of the same calls run whole, one after the other,
\* in lock order.
C15_Serialized ==
    /\ \A c, d \in Callers :
          (pc[c] \in CriticalPcs /\ pc[d] \in CriticalPcs) => c = d
    /\ \A c \in Callers : pc[c] \in CriticalPcs <=> lock = c
    /\ \A c \in Callers :
          (lock = c /\ pc[c] \in {"scan", "lookup"}) =>
             /\ \A id \in id_min .. id_max :
                   (id \in SeqSet(availables)) /= (id \in DOMAIN expires)
             /\ \A i, j \in 1 .. Len(availables) : availables[i] = availables[j] => i = j
    /\ lock = NoHolder =>
          /\ expires = serial.expires
          /\ availables = serial.availables
          /\ poisoned = serial.poisoned
    /\ \A c \in Callers :
          pc[c] \in {"respond", "panicked"} => loc[c].result = loc[c].serial_result

\* One caller is between its pop and its insert, the popped id being in
\* neither structure, while the other caller waits for the lock.
C15_Witness ==
    \E c, d \in Callers :
        /\ pc[c] = "insert"
        /\ pc[d] \in {"lock_next", "lock_heartbeat"}
        /\ loc[c].id_next \notin SeqSet(availables)
        /\ loc[c].id_next \notin DOMAIN expires

\* C19 - every operation completes: with a fair lock, a handler that has
\* started comes to its response; no handler ends without one; at its
\* response it holds a success value or one of the three error codes and no
\* longer holds the lock; a caller inside the critical section can always
\* take its next step (it waits on nothing), and some step is always
\* possible (no deadlock).
C19_EveryOperationCompletes ==
    /\ \A c \in Callers : (pc[c] \notin {"idle", "respond"}) ~> (pc[c] = "respond")
    /\ [](\A c \in Callers : pc[c] /= "panicked")
    /\ [](\A c \in Callers :
             pc[c] = "respond" =>
                /\ lock /= c
                /\ \/ loc[c].result.ok
                   \/ loc[c].result.code \in {ERROR_CODE_NO_ID_AVAILBLE,
                                              ERROR_CODE_ID_EXPIRED,
                                              ERROR_CODE_ID_NONEXISTENT})
    /\ [](\A c \in Callers : pc[c] \in CriticalPcs => ENABLED Inside(c))
    /\ [](ENABLED <<NextLock>>_vars)

====
